---- MODULE Spec2Model ----
(***************************************************************************)
(* Model of the recsys package: the item-based collaborative-filtering     *)
(* recommender (recsys/recommend_user.py, recsys/utils.py) and the         *)
(* evaluation harness (recsys/evaluation.py).                              *)
(*                                                                         *)
(* Numbers.  Ratings, normalized ratings, scores and estimated ratings are *)
(* fixed-point integers with FP units per 1.0 (a rating of 4.5 is 450);    *)
(* cosine similarities are fixed-point integers with SP units per 1.0.     *)
(* Divisions truncate toward zero.  A value that is exactly zero in the    *)
(* program is exactly zero here and a non-zero one keeps its sign: the     *)
(* tests `> 0`, `== 0` and `>= min_similarity` of the code are decided on  *)
(* the same side as in the program.                                        *)
(***************************************************************************)
EXTENDS Integers, Sequences, FiniteSets, TLC

VARIABLES
    df,        \* the caller's rating table: user -> row (product -> rating, 0 = no record)
    call,      \* the arguments of the call of recommend_for_user ("none" before it)
    outcome,   \* how the call ended
    scores,    \* the local dict `scores` at the return (insertion order kept)
    recs,      \* the DataFrame returned: rows [product_id, score, estimated_rating]
    split_call,     \* the arguments of the call of split_train_test
    split_outcome,  \* how that call ended
    train_df,       \* the train rows returned
    test_df,        \* the test rows returned
    metric_in,      \* the arguments of a call of precision_at_k or recall_at_k
    metric_out,     \* the function called and the value returned, a fraction
    ev_in,          \* the arguments of the call of evaluate_recommendations
    ev_out,         \* how that call ended, the summary and evaluated_users
    caller_df,      \* the caller's table object after the calls: columns and records
    pred_in,        \* the arguments of the call of evaluate_rating_prediction
    pred_out,       \* how that call ended, the two lists and the result
    norm_in,        \* a record of the table and the method it is normalized with
    norm_out,       \* its normalized and denormalized rating
    top_in,         \* the arguments of the call of get_top_n_products
    top_out         \* the rows it returned

recVars == <<call, outcome, scores, recs>>

splitVars == <<split_call, split_outcome, train_df, test_df>>

metricVars == <<metric_in, metric_out>>

evVars == <<ev_in, ev_out>>

predVars == <<pred_in, pred_out>>

normVars == <<norm_in, norm_out>>

topVars == <<top_in, top_out>>

vars ==
    <<df, call, outcome, scores, recs, split_call, split_outcome, train_df, test_df,
      metric_in, metric_out, ev_in, ev_out, caller_df, pred_in, pred_out, norm_in,
      norm_out, top_in, top_out>>

----------------------------------------------------------------------------
(* Bounds of the model *)

NumUsers == 5
NumProducts == 4
MaxN == 2
MaxMinRatings == 2
NumItems == 3
MaxLen == 3
MaxK == 4
NumEvalUsers == 2

(* Program constants *)

FP == 100
SP == 1000
RelevanceThreshold == 400
MinRatingsDefault == 5
ClipLow == 50
ClipHigh == 500

Users == 1..NumUsers
Products == 1..NumProducts

----------------------------------------------------------------------------
(* Arithmetic helpers *)

Abs(x) == IF x < 0 THEN -x ELSE x

Min2(a, b) == IF a < b THEN a ELSE b

Max2(a, b) == IF a > b THEN a ELSE b

\* a / b truncated toward zero (b > 0)
Quot(a, b) == IF a >= 0 THEN a \div b ELSE -((-a) \div b)

RECURSIVE SumSeq(_)
SumSeq(s) == IF s = <<>> THEN 0 ELSE Head(s) + SumSeq(Tail(s))

RECURSIVE SqrtIter(_, _)
SqrtIter(v, x) ==
    LET y == (x + v \div x) \div 2
    IN  IF y >= x THEN x ELSE SqrtIter(v, y)

\* floor of the square root
isqrt(v) == IF v <= 0 THEN 0 ELSE SqrtIter(v, v)

RECURSIVE SetToSeqAsc(_)
SetToSeqAsc(S) ==
    IF S = {} THEN <<>>
    ELSE LET m == CHOOSE x \in S : \A y \in S : x <= y
         IN  <<m>> \o SetToSeqAsc(S \ {m})

----------------------------------------------------------------------------
(* The rating table.  A row is a tuple of ratings by product, 0 where the  *)
(* user has no record for the product; load_ratings admits ratings in      *)
(* [0.5, 5.0] only and one record per (user, product).                     *)

\* Rows a user of the table may have.  The first four are the users of the
\* test fixture (products 101..104 as 1..4); then a user whose ratings are
\* all equal, a user with one rating equal to the mean of the user's
\* ratings, a user with three different ratings, a user with a single
\* record, and a user with no record at all.
UserRows ==
    << <<500, 400, 0, 0>>,
       <<500, 0, 300, 0>>,
       <<0, 450, 400, 0>>,
       <<500, 0, 0, 200>>,
       <<400, 0, 400, 0>>,
       <<500, 200, 350, 0>>,
       <<500, 300, 200, 0>>,
       <<500, 0, 0, 0>>,
       <<0, 0, 0, 0>> >>

Rating(d, u, p) == IF p <= Len(d[u]) THEN d[u][p] ELSE 0

HasRecord(d, u, p) == Rating(d, u, p) # 0

UserProducts(d, u) == {p \in Products : HasRecord(d, u, p)}

TableUsers(d) == {u \in Users : UserProducts(d, u) # {}}

rating_count(d, u) == Cardinality(UserProducts(d, u))

RECURSIVE rating_sum(_, _, _)
rating_sum(d, u, p) == IF p = 0 THEN 0 ELSE Rating(d, u, p) + rating_sum(d, u, p - 1)

RECURSIVE SumSqDev(_, _, _, _, _)
SumSqDev(d, u, n, sum, p) ==
    IF p = 0 THEN 0
    ELSE (IF HasRecord(d, u, p)
          THEN (Rating(d, u, p) * n - sum) * (Rating(d, u, p) * n - sum)
          ELSE 0) + SumSqDev(d, u, n, sum, p - 1)

----------------------------------------------------------------------------
(* utils.get_user_statistics: the statistics of user u, who has a record.  *)
(* std_rating is the sample standard deviation (ddof = 1), which is NaN    *)
(* for a single record: std_nan tells, and std_rating is then unused.      *)

get_user_statistics(d, u) ==
    LET n == rating_count(d, u)
        sum == rating_sum(d, u, NumProducts)
        rs == {Rating(d, u, p) : p \in UserProducts(d, u)}
    IN  [rating_count |-> n,
         rating_sum |-> sum,
         mean_rating |-> Quot(sum, n),
         min_rating |-> CHOOSE r \in rs : \A q \in rs : r <= q,
         max_rating |-> CHOOSE r \in rs : \A q \in rs : r >= q,
         std_nan |-> n = 1,
         std_rating |-> IF n = 1 THEN 0
                        ELSE isqrt(SumSqDev(d, u, n, sum, NumProducts) \div (n * n * (n - 1)))]

----------------------------------------------------------------------------
(* utils.normalize_ratings_per_user: the normalized_rating of a record     *)
(* with rating r of a user with statistics st.                             *)

NormalizedIsNaN(st, method) == method = "z_score" /\ st.std_nan

normalized_rating(st, method, r) ==
    CASE method = "mean_center" ->
            Quot(r * st.rating_count - st.rating_sum, st.rating_count)
      [] method = "z_score" ->
            LET user_std == IF st.std_rating = 0 THEN FP ELSE st.std_rating
            IN  Quot((r * st.rating_count - st.rating_sum) * FP, st.rating_count * user_std)
      [] method = "min_max" ->
            LET range == st.max_rating - st.min_rating
                user_range == IF range = 0 THEN FP ELSE range
            IN  Quot((r - st.min_rating) * FP, user_range)

----------------------------------------------------------------------------
(* recommend_for_user, lines 50-56: the user-item matrix and the item-item *)
(* cosine similarity.  col is "rating" or the normalization method whose   *)
(* normalized_rating column is pivoted.  pivot_table drops the cells whose *)
(* value is NaN, and with them the users and products left with no cell.   *)

\* whether user u has a cell in the pivot
InPivot(d, col, u) ==
    /\ UserProducts(d, u) # {}
    /\ col = "rating" \/ ~NormalizedIsNaN(get_user_statistics(d, u), col)

PivotIndex(d, col) == {u \in Users : InPivot(d, col, u)}

PivotColumns(d, col) ==
    {p \in Products : \E u \in Users : HasRecord(d, u, p) /\ InPivot(d, col, u)}

\* the row of user u in matrix = pivot.fillna(0), products 1..p
RECURSIVE NormalizedRow(_, _, _, _, _)
NormalizedRow(d, col, u, st, p) ==
    IF p = 0 THEN <<>>
    ELSE Append(NormalizedRow(d, col, u, st, p - 1),
                IF HasRecord(d, u, p) THEN normalized_rating(st, col, Rating(d, u, p))
                ELSE 0)

RECURSIVE RawRow(_, _, _)
RawRow(d, u, p) == IF p = 0 THEN <<>> ELSE Append(RawRow(d, u, p - 1), Rating(d, u, p))

ZeroRow == [p \in Products |-> 0]

MatrixRow(d, col, u) ==
    IF ~InPivot(d, col, u) THEN ZeroRow
    ELSE IF col = "rating" THEN RawRow(d, u, NumProducts)
    ELSE NormalizedRow(d, col, u, get_user_statistics(d, u), NumProducts)

\* the rows of users 1..u
RECURSIVE MatrixRows(_, _, _)
MatrixRows(d, col, u) ==
    IF u = 0 THEN <<>> ELSE Append(MatrixRows(d, col, u - 1), MatrixRow(d, col, u))

Matrix(d, col) == MatrixRows(d, col, NumUsers)

\* the dot product of columns i and j over users 1..u
RECURSIVE Dot(_, _, _, _)
Dot(m, i, j, u) == IF u = 0 THEN 0 ELSE m[u][i] * m[u][j] + Dot(m, i, j, u - 1)

\* sklearn cosine_similarity of two columns: 0 when a column is all zero,
\* otherwise dot / (|i| |j|) in [-1, 1], with the sign of the dot product
cosine_similarity(dot, norm_i, norm_j) ==
    LET den == norm_i * norm_j
    IN  IF dot = 0 \/ den = 0 THEN 0
        ELSE LET q == Min2(SP, Max2(1, Quot(Abs(dot) * SP, den)))
             IN  IF dot > 0 THEN q ELSE -q

\* sim_df[i][j], computed where the scorer reads it
sim_df(m, i, j) ==
    cosine_similarity(Dot(m, i, j, NumUsers),
                      isqrt(Dot(m, i, i, NumUsers)), isqrt(Dot(m, j, j, NumUsers)))

----------------------------------------------------------------------------
(* recommend_for_user, lines 71-93: accumulation of scores and weights.    *)
(* A dict is a sequence of entries in insertion order.                     *)

InDict(dict, k) == \E i \in 1..Len(dict) : dict[i].product_id = k

\* scores.setdefault(other, 0); scores[other] += ds; score_weights[other] += dw
Accumulate(dict, other, ds, dw) ==
    IF InDict(dict, other)
    THEN [i \in 1..Len(dict) |->
            IF dict[i].product_id = other
            THEN [dict[i] EXCEPT !.score = @ + ds, !.weight = @ + dw]
            ELSE dict[i]]
    ELSE Append(dict, [product_id |-> other, score |-> ds, weight |-> dw])

\* line 82: only unrated items with sufficient similarity
IsCandidate(user_ratings, other, sim, min_similarity) ==
    user_ratings[other] = 0 /\ sim >= min_similarity

\* lines 80-88: the inner loop over similar_items = sim_df[product].drop(product)
RECURSIVE InnerLoop(_, _, _, _, _, _)
InnerLoop(dict, product, others, user_ratings, matrix, min_similarity) ==
    IF others = <<>> THEN dict
    ELSE LET other == Head(others)
             sim == sim_df(matrix, product, other)
             next == IF other # product /\ IsCandidate(user_ratings, other, sim, min_similarity)
                     THEN Accumulate(dict, other, sim * user_ratings[product], Abs(sim))
                     ELSE dict
         IN  InnerLoop(next, product, Tail(others), user_ratings, matrix, min_similarity)

\* lines 75-88: the outer loop over rated_items
RECURSIVE OuterLoop(_, _, _, _, _, _)
OuterLoop(dict, rated, cols, user_ratings, matrix, min_similarity) ==
    IF rated = <<>> THEN dict
    ELSE OuterLoop(InnerLoop(dict, Head(rated), cols, user_ratings, matrix, min_similarity),
                   Tail(rated), cols, user_ratings, matrix, min_similarity)

\* lines 90-93: scores[item] / score_weights[item] where the weight is positive
NormalizeScore(e) ==
    [product_id |-> e.product_id,
     score |-> IF e.weight > 0 THEN Quot(e.score, e.weight) ELSE e.score,
     weight |-> e.weight]

\* line 60: rated_items = user_ratings[user_ratings > 0].index
IsRated(v) == v > 0

rated_items(user_ratings, cols) == {p \in cols : IsRated(user_ratings[p])}

----------------------------------------------------------------------------
(* DataFrame helpers *)

\* sort by score descending; rows of equal score keep their order
RECURSIVE InsertDesc(_, _)
InsertDesc(sorted, x) ==
    IF sorted = <<>> THEN <<x>>
    ELSE IF Head(sorted).score >= x.score
         THEN <<Head(sorted)>> \o InsertDesc(Tail(sorted), x)
         ELSE <<x>> \o sorted

\* the result of sort_values dropped
sort_values_discarded(s) == s

RECURSIVE sort_values_desc(_)
sort_values_desc(s) ==
    IF s = <<>> THEN <<>>
    ELSE InsertDesc(sort_values_desc(SubSeq(s, 1, Len(s) - 1)), s[Len(s)])

\* DataFrame.head(n), n >= 0
head(s, n) == SubSeq(s, 1, Min2(n, Len(s)))

\* the estimate returned without the clip of line 120
clip_none(x) == x

\* Series.clip(0.5, 5.0)
clip(x) == IF x < ClipLow THEN ClipLow ELSE IF x > ClipHigh THEN ClipHigh ELSE x

----------------------------------------------------------------------------
(* get_popular_items(df, n, min_ratings)                                   *)

product_count(d, p) == Cardinality({u \in Users : HasRecord(d, u, p)})

RECURSIVE product_sum(_, _, _)
product_sum(d, p, u) == IF u = 0 THEN 0 ELSE Rating(d, u, p) + product_sum(d, p, u - 1)

product_mean(d, p) == Quot(product_sum(d, p, NumUsers), product_count(d, p))

\* the floor applied with > in place of >=
MeetsFloor_Strict(count, min_ratings) == count > min_ratings

\* line 148: the count floor
MeetsFloor(count, min_ratings) == count >= min_ratings

\* lines 143-147: one row per product of the table, ascending product_id
PopularRows(d) ==
    LET ps == SetToSeqAsc({p \in Products : product_count(d, p) > 0})
    IN  [i \in 1..Len(ps) |->
            [product_id |-> ps[i], score |-> product_mean(d, ps[i]),
             count |-> product_count(d, ps[i])]]

get_popular_items(d, n, min_ratings) ==
    LET popular == SelectSeq(PopularRows(d), LAMBDA r : MeetsFloor(r.count, min_ratings))
        top == head(sort_values_desc(popular), n)
    IN  [i \in 1..Len(top) |->
            [product_id |-> top[i].product_id, score |-> top[i].score,
             estimated_rating |-> top[i].score]]

----------------------------------------------------------------------------
(* recommend_for_user(df, user_id, n, min_similarity, use_normalized,      *)
(* normalization_method)                                                   *)

\* lines 103-117: the estimated rating before clipping; st is
\* get_user_statistics(df[df['user_id'] == user_id])
Denormalize(c, st, score) ==
    IF ~c.use_normalized THEN score
    ELSE CASE c.normalization_method = "mean_center" -> score + st.mean_rating
           [] c.normalization_method = "z_score" ->
                Quot(score * st.std_rating, FP) + st.mean_rating
           [] OTHER -> score

\* lines 119-120
EstimatedRating(c, st, score) == clip(Denormalize(c, st, score))

\* head taken before the sort
TopN_HeadFirst(rows, n) == sort_values_desc(head(rows, n))

\* lines 100-101: recs.sort_values("score", ascending=False).head(n)
TopN(rows, n) == head(sort_values_desc(rows), n)

----------------------------------------------------------------------------
(* The effect of a call on the table object the caller passed.  h holds   *)
(* the caller's object, the object the local name df is bound to, and     *)
(* whether the two are the same object.                                   *)

\* at the entry of a function the parameter df is the caller's object
Bind(frame) == [caller |-> frame, local |-> frame, aliased |-> TRUE]

\* no copy is made: the function goes on with the object passed in
df_copy_alias(h) == h

\* utils.py line 28, evaluation.py line 38: df.copy()
df_copy(h) == [h EXCEPT !.aliased = FALSE]

\* utils.py lines 33, 41, 50: df['normalized_rating'] = ...
AssignColumn(h, name) ==
    [h EXCEPT !.local.columns = @ \cup {name},
              !.caller.columns = IF h.aliased THEN @ \cup {name} ELSE @]

\* utils.normalize_ratings_per_user, lines 28-55
normalize_ratings_per_user_frame(h, method) ==
    IF method \in {"mean_center", "z_score", "min_max"}
    THEN AssignColumn(df_copy(h), "normalized_rating")
    ELSE df_copy(h)

\* get_popular_items, lines 143-157: reads df only
get_popular_items_frame(h) == h

\* split_train_test, lines 36-38: df_filtered is a copy, df is only read
split_train_test_frame(h) == df_copy(h)

\* the membership test of line 39 left out
UserInTable_Always(d, user_id) == TRUE

\* line 39: user_id in df['user_id'].values
UserInTable(d, user_id) == user_id \in TableUsers(d)

recommend_for_user(d, c) ==
    IF ~UserInTable(d, c.user_id)
    THEN [outcome |-> "UnknownUser", scores |-> <<>>, recs |-> <<>>]
    ELSE
    LET col == IF c.use_normalized THEN c.normalization_method ELSE "rating"
        columns == PivotColumns(d, col)
    IN  IF c.user_id \notin PivotIndex(d, col)
        THEN [outcome |-> "PivotError", scores |-> <<>>, recs |-> <<>>]
        ELSE
        LET matrix == Matrix(d, col)
            user_ratings == matrix[c.user_id]
            rated == rated_items(user_ratings, columns)
        IN  IF rated = {}
            THEN [outcome |-> "cold_start", scores |-> <<>>,
                  recs |-> get_popular_items(d, c.n, MinRatingsDefault)]
            ELSE
            LET acc == OuterLoop(<<>>, SetToSeqAsc(rated), SetToSeqAsc(columns),
                                 user_ratings, matrix, c.min_similarity)
                dict == [i \in 1..Len(acc) |-> NormalizeScore(acc[i])]
            IN  IF dict = <<>>
                THEN [outcome |-> "empty", scores |-> dict, recs |-> <<>>]
                ELSE
                LET top == TopN(dict, c.n)
                    user_stats == get_user_statistics(d, c.user_id)
                IN  [outcome |-> "scored", scores |-> dict,
                     recs |-> [i \in 1..Len(top) |->
                        [product_id |-> top[i].product_id, score |-> top[i].score,
                         estimated_rating |->
                            EstimatedRating(c, user_stats, top[i].score)]]]

\* recommend_for_user, lines 39-48: df is rebound to the frame that
\* normalize_ratings_per_user returns; the lines after it only read df
recommend_for_user_frame(h, d, c) ==
    IF ~UserInTable(d, c.user_id) THEN h
    ELSE IF c.use_normalized
         THEN normalize_ratings_per_user_frame(h, c.normalization_method)
         ELSE h

----------------------------------------------------------------------------
(* The recommender as a state machine: a table is loaded, then one call of *)
(* recommend_for_user is made on it.  Every operation treats the users     *)
(* alike, so the call is made for user 1 and the tables are enumerated up  *)
(* to the order of the other users.                                        *)

NoCall ==
    [user_id |-> 0, n |-> 0, min_similarity |-> 0, use_normalized |-> FALSE,
     normalization_method |-> "mean_center"]

Methods == {"mean_center", "z_score", "min_max"}

\* the default 0.1 of the signature, and 0
MinSimilarities == {0, SP \div 10}

\* the method is not read when use_normalized is false
Calls ==
    {[user_id |-> 1, n |-> n, min_similarity |-> ms, use_normalized |-> un,
      normalization_method |-> m] :
        n \in 0..MaxN, ms \in MinSimilarities, un \in BOOLEAN, m \in Methods}

\* the tables loaded
Tables ==
    {[u \in Users |-> UserRows[idx[u]]] :
        idx \in {i \in [Users -> 1..Len(UserRows)] :
                    \A u \in 2..(NumUsers - 1) : i[u] <= i[u + 1]}}

RecIdle ==
    /\ call = NoCall
    /\ outcome = "none"
    /\ scores = <<>>
    /\ recs = <<>>

SplitIdle ==
    /\ split_call = [test_size |-> <<0, 1>>, min_ratings_per_user |-> 0]
    /\ split_outcome = "none"
    /\ train_df = {}
    /\ test_df = {}

MetricIdle ==
    /\ metric_in = [recommended_items |-> <<>>, relevant_items |-> {}, k |-> 0]
    /\ metric_out = [fn |-> "none", value |-> <<0, 1>>]

EvIdle ==
    /\ ev_in = [test_df |-> <<>>, recommend_func |-> <<>>, k_values |-> <<>>]
    /\ ev_out = [outcome |-> "none", summary |-> <<>>, evaluated_users |-> 0]

\* the rows above, and a user who rated three products alike and a fourth
\* one lower: three entries of the normalized row have the same sign
UserRowsWide == Append(UserRows, <<450, 450, 450, 100>>)

\* the tables whose records are those of users 1 and 2, rows of UserRowsWide
WideTables ==
    {[u \in Users |-> IF u <= 2 THEN UserRowsWide[idx[u]] ELSE UserRows[Len(UserRows)]] :
        idx \in [1..2 -> 1..Len(UserRowsWide)]}

\* the columns of a table loaded by load_ratings
BaseColumns == {"user_id", "product_id", "rating", "timestamp"}

CallerIdle == caller_df = [columns |-> BaseColumns, records |-> df]

PredIdle ==
    /\ pred_in = [test_df |-> <<>>, predict_func |-> <<>>]
    /\ pred_out = [outcome |-> "none", empty |-> TRUE, rmse |-> 0, mae |-> <<0, 1>>,
                   n_predictions |-> 0, actual_ratings |-> <<>>,
                   predicted_ratings |-> <<>>, calls |-> <<>>]

NormIdle ==
    /\ norm_in = [user_id |-> 0, product_id |-> 0, method |-> "mean_center"]
    /\ norm_out = [outcome |-> "none", normalized |-> 0, normalized_nan |-> FALSE,
                   denormalized |-> 0, denormalized_nan |-> FALSE]

TopIdle ==
    /\ top_in = [table |-> <<>>, days |-> 0, n |-> 0]
    /\ top_out = [outcome |-> "none", rows |-> <<>>]

\* no call of the functions modelled further down has been made
OthersIdle == CallerIdle /\ PredIdle /\ NormIdle /\ TopIdle

InitRec ==
    /\ df \in Tables
    /\ RecIdle
    /\ SplitIdle
    /\ MetricIdle
    /\ EvIdle
    /\ OthersIdle

RecommendForUser ==
    /\ outcome = "none"
    /\ \E c \in Calls :
          /\ ~c.use_normalized => c.normalization_method = "mean_center"
          /\ LET r == recommend_for_user(df, c)
             IN  /\ call' = c
                 /\ outcome' = r.outcome
                 /\ scores' = r.scores
                 /\ recs' = r.recs
                 /\ caller_df' = recommend_for_user_frame(Bind(caller_df), df, c).caller
    /\ UNCHANGED <<df, splitVars, metricVars, evVars, predVars, normVars, topVars>>

NextRec == RecommendForUser

SpecRec == InitRec /\ [][NextRec]_vars

\* one call of recommend_for_user on a table of WideTables
InitRecWide ==
    /\ df \in WideTables
    /\ RecIdle
    /\ SplitIdle
    /\ MetricIdle
    /\ EvIdle
    /\ OthersIdle

SpecRecWide == InitRecWide /\ [][NextRec]_vars

----------------------------------------------------------------------------
(* evaluation.split_train_test(df, test_size, random_state,                *)
(* min_ratings_per_user).  test_size is a fraction <<num, den>>.           *)

Record(d, u, p) == [user_id |-> u, product_id |-> p, rating |-> Rating(d, u, p)]

\* user_data: the records of user u in the order of the table
UserData(d, u) ==
    LET ps == SetToSeqAsc(UserProducts(d, u))
    IN  [i \in 1..Len(ps) |-> Record(d, u, ps[i])]

\* line 37: user_counts >= min_ratings_per_user
IsValidUser(count, min_ratings_per_user) == count >= min_ratings_per_user

valid_users(d, min_ratings_per_user) ==
    {u \in TableUsers(d) : IsValidUser(rating_count(d, u), min_ratings_per_user)}

\* the test count rounded down
NTest_Floor(test_size, n_samples) == (test_size[1] * n_samples) \div test_size[2]

\* sklearn train_test_split: n_test = ceil(test_size * n_samples)
NTest(test_size, n_samples) ==
    (test_size[1] * n_samples + test_size[2] - 1) \div test_size[2]

\* sklearn train_test_split: n_train = n_samples - n_test
NTrain(test_size, n_samples) == n_samples - NTest(test_size, n_samples)

\* sklearn train_test_split raises ValueError for a test_size outside (0, 1)
\* and when the train set would be empty
SplitFails(test_size, n_samples) ==
    \/ test_size[1] <= 0
    \/ test_size[1] >= test_size[2]
    \/ NTrain(test_size, n_samples) = 0

\* the rows of user_data at the positions pos
RowsAt(user_data, pos) == {user_data[i] : i \in pos}

\* lines 50-56: test_user, then train_user, of one user; picked[n] is the set
\* of positions that the shuffle seeded with random_state puts in the test
\* side of a frame of n rows
TestUser(user_data, picked) == RowsAt(user_data, picked[Len(user_data)])

\* the train side keeping every row of the user
TrainUser_All(user_data, picked) == RowsAt(user_data, 1..Len(user_data))

TrainUser(user_data, picked) ==
    RowsAt(user_data, (1..Len(user_data)) \ picked[Len(user_data)])

split_train_test(d, test_size, picked, min_ratings_per_user) ==
    LET valid == valid_users(d, min_ratings_per_user)
    IN  IF \E u \in valid : SplitFails(test_size, rating_count(d, u))
        THEN [outcome |-> "ValueError", train |-> {}, test |-> {}]
        ELSE IF valid = {}
        THEN [outcome |-> "ValueError", train |-> {}, test |-> {}]
        ELSE [outcome |-> "ok",
              train |-> UNION {TrainUser(UserData(d, u), picked) : u \in valid},
              test |-> UNION {TestUser(UserData(d, u), picked) : u \in valid}]

TestSizes == {<<1, 5>>, <<1, 2>>, <<9, 10>>}

\* the position sets a seed can pick for frames of n rows
Picks(test_size, n) ==
    IF SplitFails(test_size, n) THEN {{}}
    ELSE {s \in SUBSET (1..n) : Cardinality(s) = NTest(test_size, n)}

\* what a seed can pick for the frames of 1..n rows
RECURSIVE PickSeqs(_, _)
PickSeqs(test_size, n) ==
    IF n = 0 THEN {<<>>}
    ELSE {Append(s, x) : s \in PickSeqs(test_size, n - 1), x \in Picks(test_size, n)}

\* the longest frame split
MaxCount(d) ==
    LET counts == {rating_count(d, u) : u \in Users}
    IN  CHOOSE c \in counts : \A x \in counts : c >= x

InitSplit ==
    /\ df \in Tables
    /\ RecIdle
    /\ SplitIdle
    /\ MetricIdle
    /\ EvIdle
    /\ OthersIdle

SplitTrainTest ==
    /\ split_outcome = "none"
    /\ \E ts \in TestSizes, mr \in 1..MaxMinRatings :
       \E picked \in PickSeqs(ts, MaxCount(df)) :
          LET r == split_train_test(df, ts, picked, mr)
          IN  /\ split_call' = [test_size |-> ts, min_ratings_per_user |-> mr]
              /\ split_outcome' = r.outcome
              /\ train_df' = r.train
              /\ test_df' = r.test
              /\ caller_df' = split_train_test_frame(Bind(caller_df)).caller
    /\ UNCHANGED <<df, recVars, metricVars, evVars, predVars, normVars, topVars>>

NextSplit == SplitTrainTest

SpecSplit == InitSplit /\ [][NextSplit]_vars

----------------------------------------------------------------------------
(* evaluation.precision_at_k, recall_at_k, f1_score_at_k.  A value is an   *)
(* exact fraction <<numerator, denominator>>, denominator > 0.             *)

RECURSIVE Gcd(_, _)
Gcd(a, b) == IF b = 0 THEN a ELSE Gcd(b, a % b)

\* a fraction in lowest terms
Frac(n, d) == LET g == Gcd(Abs(n), d) IN <<n \div g, d \div g>>

FracAdd(a, b) == Frac(a[1] * b[2] + b[1] * a[2], a[2] * b[2])

FracLeq(a, b) == a[1] * b[2] <= b[1] * a[2]

Zero == <<0, 1>>

One == <<1, 1>>

\* recommended_items[:k], k >= 0
top_k(recommended_items, k) == SubSeq(recommended_items, 1, Min2(k, Len(recommended_items)))

\* len([item for item in top_k if item in relevant_items])
relevant_in_top_k(recommended_items, relevant_items, k) ==
    Len(SelectSeq(top_k(recommended_items, k), LAMBDA item : item \in relevant_items))

precision_at_k(recommended_items, relevant_items, k) ==
    IF k = 0 THEN Zero
    ELSE Frac(relevant_in_top_k(recommended_items, relevant_items, k), k)

recall_at_k(recommended_items, relevant_items, k) ==
    IF Cardinality(relevant_items) = 0 THEN Zero
    ELSE Frac(relevant_in_top_k(recommended_items, relevant_items, k),
              Cardinality(relevant_items))

f1_score_at_k(recommended_items, relevant_items, k) ==
    LET precision == precision_at_k(recommended_items, relevant_items, k)
        recall == recall_at_k(recommended_items, relevant_items, k)
        sum == FracAdd(precision, recall)
    IN  IF sum[1] = 0 THEN Zero
        ELSE Frac(2 * precision[1] * recall[1] * sum[2], precision[2] * recall[2] * sum[1])

Items == 1..NumItems

\* the lists of at most n items
RECURSIVE Lists(_)
Lists(n) ==
    IF n = 0 THEN {<<>>}
    ELSE Lists(n - 1) \cup {Append(l, i) : l \in {x \in Lists(n - 1) : Len(x) = n - 1}, i \in Items}

InitMetric ==
    /\ df = [u \in Users |-> UserRows[Len(UserRows)]]
    /\ RecIdle
    /\ SplitIdle
    /\ metric_in \in [recommended_items : Lists(MaxLen), relevant_items : SUBSET Items,
                      k : 0..MaxK]
    /\ metric_out = [fn |-> "none", value |-> Zero]
    /\ EvIdle
    /\ OthersIdle

PrecisionAtK ==
    /\ metric_out.fn = "none"
    /\ metric_out' =
          [fn |-> "precision_at_k",
           value |-> precision_at_k(metric_in.recommended_items, metric_in.relevant_items,
                                    metric_in.k)]
    /\ UNCHANGED <<df, recVars, splitVars, metric_in, evVars, caller_df, predVars, normVars,
                    topVars>>

RecallAtK ==
    /\ metric_out.fn = "none"
    /\ metric_out' =
          [fn |-> "recall_at_k",
           value |-> recall_at_k(metric_in.recommended_items, metric_in.relevant_items,
                                 metric_in.k)]
    /\ UNCHANGED <<df, recVars, splitVars, metric_in, evVars, caller_df, predVars, normVars,
                    topVars>>

F1ScoreAtK ==
    /\ metric_out.fn = "none"
    /\ metric_out' =
          [fn |-> "f1_score_at_k",
           value |-> f1_score_at_k(metric_in.recommended_items, metric_in.relevant_items,
                                   metric_in.k)]
    /\ UNCHANGED <<df, recVars, splitVars, metric_in, evVars, caller_df, predVars, normVars,
                    topVars>>

NextMetric == PrecisionAtK \/ RecallAtK \/ F1ScoreAtK

SpecMetric == InitMetric /\ [][NextMetric]_vars

----------------------------------------------------------------------------
(* evaluation.evaluate_recommendations(train_df, test_df, recommend_func,  *)
(* k_values, relevance_threshold).  test_df is a tuple of rows by user, a  *)
(* row a tuple of ratings by product (0 = no record); recommend_func gives *)
(* for each user what the call recommend_func(train_df, user_id, max_k)    *)
(* does: it raises, or returns a DataFrame with the product_id column      *)
(* given.                                                                  *)

\* line 231: test_df['user_id'].unique()
test_users(test) ==
    SetToSeqAsc({u \in 1..Len(test) : \E p \in 1..Len(test[u]) : test[u][p] # 0})

\* line 239: user_test['rating'] >= relevance_threshold
IsRelevant(rating, relevance_threshold) == rating # 0 /\ rating >= relevance_threshold

\* lines 237-240
relevant_items_of(test, u, relevance_threshold) ==
    {p \in 1..Len(test[u]) : IsRelevant(test[u][p], relevance_threshold)}

\* line 228
NoResults(k_values) ==
    [i \in 1..Len(k_values) |-> [precision |-> <<>>, recall |-> <<>>, f1 |-> <<>>]]

\* lines 255-262: the metrics of one user appended for each K
AppendMetrics(results, k_values, recommended_items, relevant_items) ==
    [i \in 1..Len(k_values) |->
        [precision |-> Append(results[i].precision,
                              precision_at_k(recommended_items, relevant_items, k_values[i])),
         recall |-> Append(results[i].recall,
                           recall_at_k(recommended_items, relevant_items, k_values[i])),
         f1 |-> Append(results[i].f1,
                       f1_score_at_k(recommended_items, relevant_items, k_values[i]))]]

\* the exception handler re-raising
HandleException_Reraise(acc) == [acc EXCEPT !.raised = TRUE]

\* lines 266-268: except Exception: continue
HandleException(acc) == acc

\* the loop body without the skip of an empty recommendation list
UserStep_NoEmptySkip(acc, u, in, relevance_threshold) ==
    LET relevant_items == relevant_items_of(in.test_df, u, relevance_threshold)
        recommendations == in.recommend_func[u]
    IN  IF relevant_items = {} THEN acc
        ELSE IF in.k_values = <<>> THEN HandleException(acc)
        ELSE IF recommendations.raises THEN HandleException(acc)
        ELSE [acc EXCEPT
                !.results = AppendMetrics(@, in.k_values, recommendations.product_id,
                                          relevant_items),
                !.evaluated_users = @ + 1]

\* lines 235-264: the body of the loop for one user
UserStep(acc, u, in, relevance_threshold) ==
    LET relevant_items == relevant_items_of(in.test_df, u, relevance_threshold)
        recommendations == in.recommend_func[u]
    IN  IF relevant_items = {} THEN acc
        ELSE IF in.k_values = <<>> THEN HandleException(acc)
        ELSE IF recommendations.raises THEN HandleException(acc)
        ELSE IF Len(recommendations.product_id) = 0 THEN acc
        ELSE [acc EXCEPT
                !.results = AppendMetrics(@, in.k_values, recommendations.product_id,
                                          relevant_items),
                !.evaluated_users = @ + 1]

\* lines 234-268: the loop; an exception that leaves the loop ends it
RECURSIVE UserLoop(_, _, _, _)
UserLoop(acc, users, in, relevance_threshold) ==
    IF users = <<>> \/ acc.raised THEN acc
    ELSE UserLoop(UserStep(acc, Head(users), in, relevance_threshold), Tail(users), in,
                  relevance_threshold)

RECURSIVE FracSum(_)
FracSum(s) == IF s = <<>> THEN Zero ELSE FracAdd(Head(s), FracSum(Tail(s)))

\* np.mean of a non-empty list
Mean(s) == LET t == FracSum(s) IN Frac(t[1], t[2] * Len(s))

\* lines 274-291: one entry per K that has values
Summary(results, k_values) ==
    LET kept == SelectSeq([i \in 1..Len(k_values) |-> i],
                          LAMBDA i : results[i].precision # <<>>)
    IN  [j \in 1..Len(kept) |->
            [k |-> k_values[kept[j]],
             precision |-> Mean(results[kept[j]].precision),
             recall |-> Mean(results[kept[j]].recall),
             f1 |-> Mean(results[kept[j]].f1)]]

evaluate_recommendations(in, relevance_threshold) ==
    LET acc == UserLoop([results |-> NoResults(in.k_values), evaluated_users |-> 0,
                         raised |-> FALSE],
                        test_users(in.test_df), in, relevance_threshold)
    IN  IF acc.raised
        THEN [outcome |-> "raised", summary |-> <<>>, evaluated_users |-> acc.evaluated_users]
        ELSE [outcome |-> "returned", summary |-> Summary(acc.results, in.k_values),
              evaluated_users |-> acc.evaluated_users]

\* the test rows of a user: one relevant item, two relevant items, a
\* relevant and an irrelevant item, no relevant item, no test row
TestRows == {<<500, 0>>, <<500, 450>>, <<300, 500>>, <<300, 0>>, <<0, 0>>}

\* what recommend_func does for a user
Raises == [raises |-> TRUE, product_id |-> <<>>]

Returns(l) == [raises |-> FALSE, product_id |-> l]

RecommendResults ==
    {Raises, Returns(<<>>), Returns(<<1>>), Returns(<<2, 1>>), Returns(<<3, 2>>),
     Returns(<<1, 1>>)}

KValues == {<<1, 2>>, <<2>>, <<>>}

EvalUsers == 1..NumEvalUsers

InitEval ==
    /\ df = [u \in Users |-> UserRows[Len(UserRows)]]
    /\ RecIdle
    /\ SplitIdle
    /\ MetricIdle
    /\ ev_in \in [test_df : [EvalUsers -> TestRows],
                  recommend_func : [EvalUsers -> RecommendResults],
                  k_values : KValues]
    /\ ev_out = [outcome |-> "none", summary |-> <<>>, evaluated_users |-> 0]
    /\ OthersIdle

EvaluateRecommendations ==
    /\ ev_out.outcome = "none"
    /\ ev_out' = evaluate_recommendations(ev_in, RelevanceThreshold)
    /\ UNCHANGED <<df, recVars, splitVars, metricVars, ev_in, caller_df, predVars, normVars,
                    topVars>>

NextEval == EvaluateRecommendations

SpecEval == InitEval /\ [][NextEval]_vars

----------------------------------------------------------------------------
(* evaluation.evaluate_rating_prediction.  test_df is the sequence of the  *)
(* ratings of the test records; predict_func gives, for each record, what  *)
(* the call of predict_func for it does: raise, or return a prediction.    *)

MaxRows == 3

\* lines 83-87: sum of (actual - predicted) ** 2
RECURSIVE SumSqErr(_, _)
SumSqErr(actual, predicted) ==
    IF actual = <<>> THEN 0
    ELSE (Head(actual) - Head(predicted)) * (Head(actual) - Head(predicted))
         + SumSqErr(Tail(actual), Tail(predicted))

\* lines 67-89
calculate_rmse(actual, predicted) == isqrt(SumSqErr(actual, predicted) \div Len(actual))

\* lines 92-113
calculate_mae(actual, predicted) ==
    Mean([i \in 1..Len(actual) |-> <<Abs(actual[i] - predicted[i]), 1>>])

\* the loop body without the try: the rating appended before the call
PredictStep_AppendFirst(acc, i, in) ==
    IF in.predict_func[i].raises
    THEN [acc EXCEPT !.calls = Append(@, i),
                     !.actual_ratings = Append(@, in.test_df[i])]
    ELSE [calls |-> Append(acc.calls, i),
          actual_ratings |-> Append(acc.actual_ratings, in.test_df[i]),
          predicted_ratings |-> Append(acc.predicted_ratings, in.predict_func[i].value)]

\* lines 324-329: the body of the loop for test record i
PredictStep(acc, i, in) ==
    IF in.predict_func[i].raises
    THEN [acc EXCEPT !.calls = Append(@, i)]
    ELSE [calls |-> Append(acc.calls, i),
          actual_ratings |-> Append(acc.actual_ratings, in.test_df[i]),
          predicted_ratings |-> Append(acc.predicted_ratings, in.predict_func[i].value)]

\* lines 323-329: the loop over records i..Len(test_df)
RECURSIVE PredictLoop(_, _, _)
PredictLoop(acc, i, in) ==
    IF i > Len(in.test_df) THEN acc
    ELSE PredictLoop(PredictStep(acc, i, in), i + 1, in)

\* lines 320-343
evaluate_rating_prediction(in) ==
    LET acc == PredictLoop([calls |-> <<>>, actual_ratings |-> <<>>,
                            predicted_ratings |-> <<>>], 1, in)
    IN  IF Len(acc.actual_ratings) = 0
        THEN [outcome |-> "returned", empty |-> TRUE, rmse |-> 0, mae |-> Zero,
              n_predictions |-> 0, actual_ratings |-> acc.actual_ratings,
              predicted_ratings |-> acc.predicted_ratings, calls |-> acc.calls]
        \* lines 83-86: numpy cannot subtract arrays of unequal lengths
        ELSE IF Len(acc.actual_ratings) # Len(acc.predicted_ratings)
        THEN [outcome |-> "raised", empty |-> FALSE, rmse |-> 0, mae |-> Zero,
              n_predictions |-> 0, actual_ratings |-> acc.actual_ratings,
              predicted_ratings |-> acc.predicted_ratings, calls |-> acc.calls]
        ELSE [outcome |-> "returned", empty |-> FALSE,
              rmse |-> calculate_rmse(acc.actual_ratings, acc.predicted_ratings),
              mae |-> calculate_mae(acc.actual_ratings, acc.predicted_ratings),
              n_predictions |-> Len(acc.actual_ratings),
              actual_ratings |-> acc.actual_ratings,
              predicted_ratings |-> acc.predicted_ratings, calls |-> acc.calls]

\* the ratings of the test records
TestRatings == {300, 500}

\* what predict_func does for a record
Predictions ==
    {[raises |-> TRUE, value |-> 0], [raises |-> FALSE, value |-> 300],
     [raises |-> FALSE, value |-> 450]}

PredictInputs ==
    UNION {[test_df : [1..len -> TestRatings], predict_func : [1..len -> Predictions]] :
              len \in 0..MaxRows}

InitPredict ==
    /\ df = [u \in Users |-> UserRows[Len(UserRows)]]
    /\ RecIdle
    /\ SplitIdle
    /\ MetricIdle
    /\ EvIdle
    /\ CallerIdle
    /\ NormIdle
    /\ TopIdle
    /\ pred_in \in PredictInputs
    /\ pred_out = [outcome |-> "none", empty |-> TRUE, rmse |-> 0, mae |-> Zero,
                   n_predictions |-> 0, actual_ratings |-> <<>>,
                   predicted_ratings |-> <<>>, calls |-> <<>>]

EvaluateRatingPrediction ==
    /\ pred_out.outcome = "none"
    /\ pred_out' = evaluate_rating_prediction(pred_in)
    /\ UNCHANGED <<df, recVars, splitVars, metricVars, evVars, caller_df, pred_in, normVars,
                    topVars>>

NextPredict == EvaluateRatingPrediction

SpecPredict == InitPredict /\ [][NextPredict]_vars

----------------------------------------------------------------------------
(* utils.normalize_ratings_per_user followed by utils.denormalize_rating   *)
(* with the user's mean_rating and std_rating of get_user_statistics, for  *)
(* one record of the table.  A NaN is told by a flag of its own.           *)

\* utils.denormalize_rating, lines 78-83
denormalize_rating(normalized_rating_, user_mean, user_std, method) ==
    CASE method = "mean_center" -> normalized_rating_ + user_mean
      [] method = "z_score" -> Quot(normalized_rating_ * user_std, FP) + user_mean
      [] OTHER -> normalized_rating_

\* whether denormalize_rating returns NaN: a NaN operand that is read
DenormalizedIsNaN(normalized_nan, std_nan, method) ==
    normalized_nan \/ (method = "z_score" /\ std_nan)

\* normalize, then denormalize, the record of user u for product p
RoundTrip(d, u, p, method) ==
    LET st == get_user_statistics(d, u)
        nan == NormalizedIsNaN(st, method)
        normalized == IF nan THEN 0 ELSE normalized_rating(st, method, Rating(d, u, p))
        dnan == DenormalizedIsNaN(nan, st.std_nan, method)
    IN  [outcome |-> "done", normalized |-> normalized, normalized_nan |-> nan,
         denormalized |-> IF dnan THEN 0
                          ELSE denormalize_rating(normalized, st.mean_rating,
                                                  st.std_rating, method),
         denormalized_nan |-> dnan]

\* the tables whose records are those of users 1 and 2
SmallTables ==
    {[u \in Users |-> IF u <= 2 THEN UserRows[idx[u]] ELSE UserRows[Len(UserRows)]] :
        idx \in [1..2 -> 1..Len(UserRows)]}

InitNorm ==
    /\ df \in SmallTables
    /\ RecIdle
    /\ SplitIdle
    /\ MetricIdle
    /\ EvIdle
    /\ OthersIdle

NormalizeRoundTrip ==
    /\ norm_out.outcome = "none"
    /\ \E u \in Users, p \in Products, method \in Methods :
          /\ HasRecord(df, u, p)
          /\ norm_in' = [user_id |-> u, product_id |-> p, method |-> method]
          /\ norm_out' = RoundTrip(df, u, p, method)
          /\ caller_df' = normalize_ratings_per_user_frame(Bind(caller_df), method).caller
    /\ UNCHANGED <<df, recVars, splitVars, metricVars, evVars, predVars, topVars>>

NextNorm == NormalizeRoundTrip

SpecNorm == InitNorm /\ [][NextNorm]_vars

----------------------------------------------------------------------------
(* The caller's table across one call of recommend_for_user,               *)
(* get_popular_items, normalize_ratings_per_user or split_train_test.      *)

\* the values of min_ratings passed to get_popular_items
PopularFloors == (1..MaxMinRatings) \cup {MinRatingsDefault}

\* a direct call of get_popular_items(df, n, min_ratings)
GetPopularItems ==
    /\ outcome = "none"
    /\ \E n \in 0..MaxN, min_ratings \in PopularFloors :
          /\ call' = [NoCall EXCEPT !.n = n]
          /\ outcome' = "popular"
          /\ scores' = <<>>
          /\ recs' = get_popular_items(df, n, min_ratings)
          /\ caller_df' = get_popular_items_frame(Bind(caller_df)).caller
    /\ UNCHANGED <<df, splitVars, metricVars, evVars, predVars, normVars, topVars>>

\* no call has been made on the table
FrameIdle ==
    /\ outcome = "none"
    /\ split_outcome = "none"
    /\ norm_out.outcome = "none"

InitFrame ==
    /\ df \in SmallTables
    /\ RecIdle
    /\ SplitIdle
    /\ MetricIdle
    /\ EvIdle
    /\ OthersIdle

NextFrame ==
    \/ FrameIdle /\ RecommendForUser
    \/ FrameIdle /\ GetPopularItems
    \/ FrameIdle /\ NormalizeRoundTrip
    \/ FrameIdle /\ SplitTrainTest

SpecFrame == InitFrame /\ [][NextFrame]_vars

----------------------------------------------------------------------------

(* recommended_top.get_top_n_products.  table gives, for each product,     *)
(* the sequence of its records [rating, age]: age is the number of days    *)
(* between the timestamp of the record and the call.                       *)

NumTopProducts == 4
MaxTopN == 3

\* line 13: the count a product needs in the window
TopMinCount == 5

TopProducts == 1..NumTopProducts

\* lines 4-5: the records of product p with timestamp >= cutoff
Window(table, p, days) == SelectSeq(table[p], LAMBDA r : r.age <= days)

RECURSIVE SumRatings(_)
SumRatings(rs) == IF rs = <<>> THEN 0 ELSE Head(rs).rating + SumRatings(Tail(rs))

\* lines 7-11: one row per product that has a record in the window
Grouped(table, days) ==
    LET ps == SetToSeqAsc({p \in TopProducts : Window(table, p, days) # <<>>})
    IN  [i \in 1..Len(ps) |->
            LET w == Window(table, ps[i], days)
            IN  [product_id |-> ps[i],
                 avg_rating |-> Quot(SumRatings(w), Len(w)),
                 rating_count |-> Len(w)]]

\* line 13
QualityFilter(grouped) == SelectSeq(grouped, LAMBDA g : g.rating_count >= TopMinCount)

\* line 15: sort_values("avg_rating", ascending=False), equal values in order
RECURSIVE InsertByAvg(_, _)
InsertByAvg(sorted, x) ==
    IF sorted = <<>> THEN <<x>>
    ELSE IF Head(sorted).avg_rating >= x.avg_rating
         THEN <<Head(sorted)>> \o InsertByAvg(Tail(sorted), x)
         ELSE <<x>> \o sorted

RECURSIVE SortByAvg(_)
SortByAvg(g) ==
    IF g = <<>> THEN <<>>
    ELSE InsertByAvg(SortByAvg(SubSeq(g, 1, Len(g) - 1)), g[Len(g)])

\* lines 3-15
get_top_n_products(table, days, n) ==
    [outcome |-> "returned",
     rows |-> head(SortByAvg(QualityFilter(Grouped(table, days))), n)]

\* the records of a product: none; the products 104, 102 and 101 of the
\* test fixture, rated once, twice and three times today; five records of
\* today; five records, one of them 40 days old
ProductRecords ==
    {<<>>,
     <<[rating |-> 200, age |-> 0]>>,
     <<[rating |-> 400, age |-> 0], [rating |-> 450, age |-> 0]>>,
     <<[rating |-> 500, age |-> 0], [rating |-> 500, age |-> 0], [rating |-> 500, age |-> 0]>>,
     <<[rating |-> 400, age |-> 0], [rating |-> 300, age |-> 0], [rating |-> 400, age |-> 0],
       [rating |-> 500, age |-> 0], [rating |-> 400, age |-> 0]>>,
     <<[rating |-> 500, age |-> 40], [rating |-> 450, age |-> 0], [rating |-> 450, age |-> 0],
       [rating |-> 500, age |-> 0], [rating |-> 450, age |-> 0]>>}

\* the windows asked for, in days
Days == {30, 60}

InitTop ==
    /\ df = [u \in Users |-> UserRows[Len(UserRows)]]
    /\ RecIdle
    /\ SplitIdle
    /\ MetricIdle
    /\ EvIdle
    /\ CallerIdle
    /\ PredIdle
    /\ NormIdle
    /\ top_in \in [table : [TopProducts -> ProductRecords], days : Days, n : 0..MaxTopN]
    /\ top_out = [outcome |-> "none", rows |-> <<>>]

GetTopNProducts ==
    /\ top_out.outcome = "none"
    /\ top_out' = get_top_n_products(top_in.table, top_in.days, top_in.n)
    /\ UNCHANGED <<df, recVars, splitVars, metricVars, evVars, caller_df, predVars, normVars,
                    top_in>>

NextTop == GetTopNProducts

SpecTop == InitTop /\ [][NextTop]_vars

----------------------------------------------------------------------------
(* Properties of recommend_for_user, checked under SpecRec                 *)

Called == outcome # "none"

RecIds == {recs[i].product_id : i \in 1..Len(recs)}

\* the column pivoted by the call, its matrix and the row of the user
CallCol == IF call.use_normalized THEN call.normalization_method ELSE "rating"

CallMatrix == Matrix(df, CallCol)

CallRow == CallMatrix[call.user_id]

\* similarity(i, c) of the call
Sim(i, c) == sim_df(CallMatrix, i, c)

\* the sum of f[i] over the items of the set S
RECURSIVE SumOver(_, _)
SumOver(f, S) ==
    IF S = {} THEN 0
    ELSE LET i == CHOOSE x \in S : TRUE IN f[i] + SumOver(f, S \ {i})

\* C1: no product_id in the result of recommend_for_user is a product for
\* which the user has a record in the input table, on every path (the
\* cold-start fallback included) and for every setting of the parameters.
C1_NeverRecommendsRated ==
    Called => \A i \in 1..Len(recs) : ~HasRecord(df, call.user_id, recs[i].product_id)

\* C2: a call for a user_id with no record in the table fails with
\* UnknownUser and returns no recommendation list.
C2_UnknownUserFails ==
    (Called /\ \A p \in Products : Rating(df, call.user_id, p) = 0)
        => (outcome = "UnknownUser" /\ recs = <<>>)

C2_Witness ==
    /\ outcome = "UnknownUser"
    /\ call.use_normalized
    /\ \E u \in Users : UserProducts(df, u) # {}

\* the products that meet the minimum-ratings floor
Eligible == {p \in Products : product_count(df, p) >= MinRatingsDefault}

\* recs is the top n of the products meeting the floor, ranked by mean
\* rating descending
IsTopPopular ==
    /\ Len(recs) = Min2(call.n, Cardinality(Eligible))
    /\ \A i \in 1..Len(recs) :
          /\ recs[i].product_id \in Eligible
          /\ recs[i].score = product_mean(df, recs[i].product_id)
          /\ recs[i].estimated_rating = recs[i].score
    /\ \A i, j \in 1..Len(recs) :
          i < j => recs[i].score >= recs[j].score /\ recs[i].product_id # recs[j].product_id
    /\ \A pr \in Eligible \ RecIds : \A i \in 1..Len(recs) :
          product_mean(df, pr) <= recs[i].score

\* the user has records, all with the same rating
AllRatingsEqual(u) ==
    /\ UserProducts(df, u) # {}
    /\ \A p1, p2 \in UserProducts(df, u) : Rating(df, u, p1) = Rating(df, u, p2)

C5_TopN ==
    Called =>
        /\ Len(recs) <= call.n
        /\ \A i, j \in 1..Len(recs) : i # j => recs[i].product_id # recs[j].product_id
        /\ outcome = "scored" =>
              \A e \in 1..Len(scores) : \A i \in 1..Len(recs) :
                  scores[e].product_id \notin RecIds => scores[e].score <= recs[i].score
        /\ outcome = "cold_start" =>
              \A pr \in Eligible \ RecIds : \A i \in 1..Len(recs) :
                  product_mean(df, pr) <= recs[i].score

C5_Witness ==
    /\ outcome = "scored"
    /\ call.n >= 1
    /\ Len(scores) > call.n
    /\ Len(recs) = call.n
    /\ \E e \in 1..Len(scores) :
          scores[e].product_id \notin RecIds /\ scores[e].score < recs[Len(recs)].score

\* C6: every estimated_rating returned lies in [0.5, 5.0], on every path.
C6_EstimatedInRange ==
    Called => \A i \in 1..Len(recs) :
        recs[i].estimated_rating >= ClipLow /\ recs[i].estimated_rating <= ClipHigh

C6_Witness ==
    /\ outcome = "scored"
    /\ ~call.use_normalized
    /\ \E i \in 1..Len(recs) :
          recs[i].score < ClipLow /\ recs[i].estimated_rating = ClipLow

----------------------------------------------------------------------------
\* the items with a non-zero entry in the row of the user
NonZeroItems == {i \in PivotColumns(df, CallCol) : CallRow[i] # 0}

\* the items i rated by the user with i # c and similarity(i, c) >=
\* min_similarity
Contributing(c) ==
    {i \in NonZeroItems : i # c /\ Sim(i, c) >= call.min_similarity}

WeightedSum(c) == SumOver([i \in Products |-> Sim(i, c) * CallRow[i]], Contributing(c))

WeightSum(c) == SumOver([i \in Products |-> Abs(Sim(i, c))], Contributing(c))

\* C16: on the scored path the score of every returned candidate c is
\* (sum of similarity(i, c) * rating_u(i)) / (sum of |similarity(i, c)|),
\* both sums over the items i rated by the user with i # c and
\* similarity(i, c) >= min_similarity; a candidate appears only if there is
\* such an item.
C16_ScoreIsWeightedMean ==
    outcome = "scored" =>
        \A k \in 1..Len(recs) :
            /\ Contributing(recs[k].product_id) # {}
            /\ WeightSum(recs[k].product_id) # 0
            /\ recs[k].score = Quot(WeightedSum(recs[k].product_id),
                                    WeightSum(recs[k].product_id))

\* the weight accumulated for product c by the call made
WeightOf(c) ==
    LET j == CHOOSE j \in 1..Len(scores) : scores[j].product_id = c
    IN  scores[j].weight

\* C17: a candidate whose accumulated weight is zero is not in the result
C17_ZeroWeightExcluded ==
    outcome = "scored" =>
        \A k \in 1..Len(recs) : WeightOf(recs[k].product_id) # 0

\* the products that have an entry in the scores of the call made
Scored == {scores[j].product_id : j \in 1..Len(scores)}

\* C18: the items treated as rated by the user are the items with a
\* non-zero entry in the user's row: the cold-start fallback is taken
\* exactly when there is none, and otherwise each of them (also one with a
\* negative normalized value) contributes to the scores and weights of the
\* products the user has not rated.
C18_NonZeroEntriesAreRated ==
    outcome \in {"cold_start", "empty", "scored"} =>
        /\ outcome = "cold_start" <=> NonZeroItems = {}
        /\ outcome # "cold_start" =>
              \A c \in PivotColumns(df, CallCol) :
                  CallRow[c] = 0 =>
                      /\ c \in Scored <=> Contributing(c) # {}
                      /\ c \in Scored => WeightOf(c) = WeightSum(c)

(* Properties of split_train_test, checked under SpecSplit                 *)

SplitCalled == split_outcome # "none"

RecordsOf(u) == {Record(df, u, p) : p \in UserProducts(df, u)}

TrainOf(u) == {r \in train_df : r.user_id = u}

TestOf(u) == {r \in test_df : r.user_id = u}

Retained == {u \in Users : rating_count(df, u) >= split_call.min_ratings_per_user
                           /\ rating_count(df, u) > 0}

\* ceil(test_size * count)
CeilTest(count) ==
    LET num == split_call.test_size[1] * count
        den == split_call.test_size[2]
    IN  IF num % den = 0 THEN num \div den ELSE num \div den + 1

\* C7: the train and test rows of every user with at least
\* min_ratings_per_user records are disjoint and their union is the user's
\* records; a user with fewer records has no row in train or test.
C7_SplitPartitions ==
    split_outcome = "ok" =>
        \A u \in Users :
            IF u \in Retained
            THEN /\ TrainOf(u) \cap TestOf(u) = {}
                 /\ TrainOf(u) \cup TestOf(u) = RecordsOf(u)
            ELSE TrainOf(u) = {} /\ TestOf(u) = {}

C7_Witness ==
    /\ split_outcome = "ok"
    /\ \E u \in Retained : rating_count(df, u) = 3 /\ Cardinality(TestOf(u)) = 2
    /\ \E u \in Users \ Retained : rating_count(df, u) > 0

----------------------------------------------------------------------------
\* C19: split_train_test completes without error for every table; when no
\* user has min_ratings_per_user records it returns an empty train and an
\* empty test collection.
C19_SplitNeverFails ==
    SplitCalled =>
        /\ split_outcome = "ok"
        /\ Retained = {} => train_df = {} /\ test_df = {}

(* Properties of precision_at_k and recall_at_k, checked under SpecMetric  *)

\* the number of relevant items among the first k recommended
HitsInTopK ==
    Cardinality({i \in 1..Len(metric_in.recommended_items) :
                    i <= metric_in.k /\ metric_in.recommended_items[i] \in
                                           metric_in.relevant_items})

InUnitInterval(v) == FracLeq(Zero, v) /\ FracLeq(v, One)

\* C9: for every recommended list (with or without repeated ids), relevant
\* set and k >= 0, precision_at_k = hits / k and recall_at_k =
\* hits / |relevant| lie in [0, 1]; precision is 0 for k = 0 and recall is
\* 0 for an empty relevant set.
C9_MetricsInUnitInterval ==
    /\ metric_out.fn = "precision_at_k" =>
          /\ InUnitInterval(metric_out.value)
          /\ metric_in.k = 0 => metric_out.value = Zero
          /\ metric_in.k > 0 =>
                metric_out.value[1] * metric_in.k = HitsInTopK * metric_out.value[2]
    /\ metric_out.fn = "recall_at_k" =>
          /\ InUnitInterval(metric_out.value)
          /\ metric_in.relevant_items = {} => metric_out.value = Zero
          /\ metric_in.relevant_items # {} =>
                metric_out.value[1] * Cardinality(metric_in.relevant_items) =
                    HitsInTopK * metric_out.value[2]

----------------------------------------------------------------------------
(* Properties of evaluate_recommendations, checked under SpecEval          *)

\* the users for which recommend_func is called and raises
RaisingUsers ==
    {u \in EvalUsers :
        /\ relevant_items_of(ev_in.test_df, u, RelevanceThreshold) # {}
        /\ ev_in.k_values # <<>>
        /\ ev_in.recommend_func[u].raises}

NoRow == [p \in 1..2 |-> 0]

\* the arguments with the test rows of the raising users left out
WithoutRaisingUsers ==
    [ev_in EXCEPT !.test_df = [u \in EvalUsers |->
        IF u \in RaisingUsers THEN NoRow ELSE ev_in.test_df[u]]]

\* C10: a user for which recommend_fn raises is skipped: the loop goes on
\* with the remaining users and the run returns the summary computed from
\* the other users only.
C10_FailingUserSkipped ==
    ev_out.outcome # "none" =>
        /\ ev_out.outcome = "returned"
        /\ ev_out = evaluate_recommendations(WithoutRaisingUsers, RelevanceThreshold)

C10_Witness ==
    /\ ev_out.outcome = "returned"
    /\ ev_out.evaluated_users >= 1
    /\ ev_out.summary # <<>>
    /\ \E u1, u2 \in EvalUsers :
          /\ u1 < u2
          /\ u1 \in RaisingUsers
          /\ relevant_items_of(ev_in.test_df, u2, RelevanceThreshold) # {}
          /\ ~ev_in.recommend_func[u2].raises
          /\ ev_in.recommend_func[u2].product_id # <<>>

\* the test users with a relevant item for which recommend_func returned
ReturnedUsers ==
    {u \in EvalUsers :
        /\ relevant_items_of(ev_in.test_df, u, RelevanceThreshold) # {}
        /\ ev_in.k_values # <<>>
        /\ ~ev_in.recommend_func[u].raises}

\* those of them for which it returned at least one row
Contributors == {u \in ReturnedUsers : ev_in.recommend_func[u].product_id # <<>>}

\* the value of one metric of user u at K
MetricOf(fn, u, k) ==
    LET recommended == ev_in.recommend_func[u].product_id
        relevant == relevant_items_of(ev_in.test_df, u, RelevanceThreshold)
    IN  CASE fn = "precision" -> precision_at_k(recommended, relevant, k)
          [] fn = "recall" -> recall_at_k(recommended, relevant, k)
          [] OTHER -> f1_score_at_k(recommended, relevant, k)

\* the mean of one metric at K over the users of the set S, one value each
MeanOver(fn, S, k) ==
    LET us == SetToSeqAsc(S)
    IN  Mean([i \in 1..Len(us) |-> MetricOf(fn, us[i], k)])

\* the per-K averages are those of the users of S, one value of each metric
\* per user and K, and S is the set of the users counted as evaluated
AveragesAreOver(S) ==
    /\ ev_out.evaluated_users = Cardinality(S)
    /\ Len(ev_out.summary) = (IF S = {} THEN 0 ELSE Len(ev_in.k_values))
    /\ \A j \in 1..Len(ev_out.summary) :
          /\ ev_out.summary[j].k = ev_in.k_values[j]
          /\ ev_out.summary[j].precision = MeanOver("precision", S, ev_in.k_values[j])
          /\ ev_out.summary[j].recall = MeanOver("recall", S, ev_in.k_values[j])
          /\ ev_out.summary[j].f1 = MeanOver("f1", S, ev_in.k_values[j])

\* C11 as stated: the users that contribute to the per-K averages are
\* exactly the test users with a relevant item for which recommend_fn
\* returned without error, one value of each metric per K, a user whose
\* returned list is empty included.
C11_ContributorsAllReturned ==
    ev_out.outcome = "returned" => AveragesAreOver(ReturnedUsers)

\* C11 amended: the users that contribute to the per-K averages are exactly
\* the test users with a relevant item for which recommend_fn returned a
\* non-empty list without error, one value of each metric per K; a user
\* whose returned list is empty is skipped and not counted.
C11_ContributorsNonEmpty ==
    ev_out.outcome = "returned" => AveragesAreOver(Contributors)

C11_Witness ==
    /\ ev_out.outcome = "returned"
    /\ Len(ev_in.k_values) = 2
    /\ Cardinality(Contributors) >= 1
    /\ ReturnedUsers \ Contributors # {}
    /\ \E j \in 1..Len(ev_out.summary) : ev_out.summary[j].precision # Zero

\* C12: whenever every test user has an item rated >= relevance_threshold,
\* the summary has exactly the keys of k_values, each with precision, recall
\* and f1 in [0, 1], whatever recommend_fn returns or raises.
C12_SummaryKeysAndRange ==
    (/\ ev_out.outcome # "none"
     /\ \A u \in EvalUsers :
           relevant_items_of(ev_in.test_df, u, RelevanceThreshold) # {})
        => /\ ev_out.outcome = "returned"
           /\ {ev_out.summary[j].k : j \in 1..Len(ev_out.summary)} =
                 {ev_in.k_values[i] : i \in 1..Len(ev_in.k_values)}
           /\ \A j \in 1..Len(ev_out.summary) :
                 /\ InUnitInterval(ev_out.summary[j].precision)
                 /\ InUnitInterval(ev_out.summary[j].recall)
                 /\ InUnitInterval(ev_out.summary[j].f1)

----------------------------------------------------------------------------
(* Properties of evaluate_rating_prediction, checked under SpecPredict     *)

\* the test records whose call of predict_func returned, in order
Succeeded ==
    SelectSeq([i \in 1..Len(pred_in.test_df) |-> i],
              LAMBDA i : ~pred_in.predict_func[i].raises)

\* C13: predict_fn is called once per test record, in order; a record whose
\* call fails adds nothing to either list, so the two lists have the same
\* length; n_predictions is the number of records whose call succeeded; and
\* when no call succeeds the empty result is returned without failing.
C13_FailedPredictionsSkipped ==
    pred_out.outcome # "none" =>
        /\ pred_out.outcome = "returned"
        /\ pred_out.calls = [i \in 1..Len(pred_in.test_df) |-> i]
        /\ Len(pred_out.actual_ratings) = Len(pred_out.predicted_ratings)
        /\ pred_out.actual_ratings =
              [j \in 1..Len(Succeeded) |-> pred_in.test_df[Succeeded[j]]]
        /\ pred_out.predicted_ratings =
              [j \in 1..Len(Succeeded) |-> pred_in.predict_func[Succeeded[j]].value]
        /\ pred_out.n_predictions = Len(Succeeded)
        /\ pred_out.empty <=> Len(Succeeded) = 0

C13_Witness ==
    /\ pred_out.outcome = "returned"
    /\ Len(pred_in.test_df) = 3
    /\ pred_in.predict_func[2].raises
    /\ Len(Succeeded) = 2
    /\ pred_out.n_predictions = 2

\* a run in which every call of predict_func fails
C13_WitnessEmpty ==
    /\ pred_out.outcome = "returned"
    /\ Len(pred_in.test_df) >= 2
    /\ Len(Succeeded) = 0
    /\ pred_out.empty

----------------------------------------------------------------------------
(* Properties of the normalization round trip, checked under SpecNorm      *)

\* the tolerance of the comparison, 0.05 of a rating: the ratings are half
\* a rating apart
Tolerance == FP \div 20

\* the rating of the record normalized
NormRating == Rating(df, norm_in.user_id, norm_in.product_id)

\* C14: for mean_center and z_score, for every user (a user with a single
\* record and a user whose ratings are all equal included) and every rating
\* r of the user, denormalize(normalize(r), user_mean, user_std, method) is
\* r, user_mean and user_std being the user's statistics.
C14_RoundTrip ==
    (norm_out.outcome = "done" /\ norm_in.method \in {"mean_center", "z_score"})
        => /\ ~norm_out.denormalized_nan
           /\ Abs(norm_out.denormalized - NormRating) <= Tolerance

----------------------------------------------------------------------------
(* Properties of get_top_n_products, checked under SpecTop                 *)

\* the products with a rating inside the last `days` days
RatedInWindow ==
    {p \in TopProducts : \E i \in 1..Len(top_in.table[p]) :
                            top_in.table[p][i].age <= top_in.days}

\* C15: get_top_n_products(df, days, n) returns exactly n rows whenever at
\* least n distinct products have a rating inside the last `days` days.
C15_ExactlyNRows ==
    (top_out.outcome = "returned" /\ Cardinality(RatedInWindow) >= top_in.n)
        => Len(top_out.rows) = top_in.n

----------------------------------------------------------------------------
(* Properties of the caller's table *)

\* a call has been made on the table
FrameCalled == ~FrameIdle

\* C20: recommend_for_user, get_popular_items, normalize_ratings_per_user
\* and split_train_test leave the caller's table as it was: the same
\* records and the same fields, no normalized_rating field added.
C20_CallerTableUnchanged ==
    /\ caller_df.records = df
    /\ caller_df.columns = BaseColumns
    /\ "normalized_rating" \notin caller_df.columns

\* a call of recommend_for_user with use_normalized = true has returned rows
C20_Witness ==
    /\ FrameCalled
    /\ call.use_normalized
    /\ outcome = "scored"
    /\ Len(recs) > 0

====
